---------------------------- MODULE Spec2Model ----------------------------
(***************************************************************************)
(* A model of the Astroturf Detector dashboard (docs/js/app.js, v2.1):     *)
(* the timeline builder (renderNews, renderTimeline), the client-side      *)
(* correlator (generateConnections, renderConnections) and the scorer the  *)
(* README documents.                                                       *)
(*                                                                         *)
(* Encoding of JavaScript values.                                          *)
(*   - A string is a TLA+ string; substring, includes and toLowerCase are  *)
(*     computed on its characters.  An absent string field is `undefined'. *)
(*   - A number is an integer.  An absent numeric field is `undefinedNum'. *)
(*   - A point in time is a number of hours since the epoch (the code      *)
(*     counts milliseconds; one day is HoursPerDay units here).  A date    *)
(*     field holds the ISO string of such a time (the number itself), is   *)
(*     absent (`undefinedNum'), or holds text Date cannot parse            *)
(*     (`unparsable'); new Date(text) of the latter is the Invalid Date,   *)
(*     whose time value is NaN.                                            *)
(***************************************************************************)
EXTENDS Integers, Sequences, FiniteSets, TLC

VARIABLES
    pc,                 \* "start" before init() has run, "loaded" after it,
                        \* "failed" after its catch block
    now,                \* the wall clock, Date.now()
    memory,             \* data/memory.json as fetched by init()
    currentRange,       \* let currentRange
    allTimelineEvents,  \* let allTimelineEvents
    allNewsItems,       \* let allNewsItems
    allConnections,     \* let allConnections
    timelineExpanded,   \* let timelineExpanded
    timelineView,       \* what the last renderTimeline call computed and showed
    newsExpanded,       \* let newsExpanded
    panels,             \* what renderStats, renderConfidence, renderJobs and
                        \* renderOrganizations showed
    state,              \* the monitor page (v1): const state
    runs,               \* the monitor page: the loadData() calls, in start order
    displayed,          \* the monitor page: what the last renderAll() showed
    scored              \* the last record the scorer scored, with its score

vars == <<pc, now, memory, currentRange, allTimelineEvents, allNewsItems,
          allConnections, timelineExpanded, timelineView, newsExpanded, panels,
          state, runs, displayed, scored>>

-----------------------------------------------------------------------------
(* JavaScript values *)

undefined == "<undefined>"
undefinedNum == -1
unparsable == -2
NaN == -1000000
all == 0

\* x || d on a string field: undefined and '' are falsy
OrStr(x, d) == IF x = undefined \/ x = "" THEN d ELSE x

\* a method called on undefined raises a TypeError
TypeError(receiver) == receiver = undefined

\* memory.field || []: a collection the snapshot lacks reads as the empty list
OrList(mem, field) == IF field \in DOMAIN mem THEN mem[field] ELSE <<>>

\* x || d on a numeric field: undefined, 0 and NaN are falsy
OrNum(x, d) == IF x = undefinedNum \/ x = 0 \/ x = NaN THEN d ELSE x

\* a - b on numbers: NaN if either operand is NaN
NumSub(a, b) == IF a = NaN \/ b = NaN THEN NaN ELSE a - b

\* a >= b on numbers: false if either operand is NaN
NumGeq(a, b) == a # NaN /\ b # NaN /\ a >= b

Min(a, b) == IF a <= b THEN a ELSE b

\* String.prototype.substring(0, n)
Substring0(s, n) == SubSeq(s, 1, Min(n, Len(s)))

\* String.prototype.includes(sub)
Includes(s, sub) ==
    \E i \in 1..(Len(s) - Len(sub) + 1) : SubSeq(s, i, i + Len(sub) - 1) = sub

LowerChar(c) ==
    CASE c = "A" -> "a" [] c = "B" -> "b" [] c = "C" -> "c" [] c = "D" -> "d"
      [] c = "E" -> "e" [] c = "F" -> "f" [] c = "G" -> "g" [] c = "H" -> "h"
      [] c = "I" -> "i" [] c = "J" -> "j" [] c = "K" -> "k" [] c = "L" -> "l"
      [] c = "M" -> "m" [] c = "N" -> "n" [] c = "O" -> "o" [] c = "P" -> "p"
      [] c = "Q" -> "q" [] c = "R" -> "r" [] c = "S" -> "s" [] c = "T" -> "t"
      [] c = "U" -> "u" [] c = "V" -> "v" [] c = "W" -> "w" [] c = "X" -> "x"
      [] c = "Y" -> "y" [] c = "Z" -> "z" [] OTHER -> c

RECURSIVE ToLowerCase(_)
\* String.prototype.toLowerCase()
ToLowerCase(s) ==
    IF s = "" THEN "" ELSE LowerChar(SubSeq(s, 1, 1)) \o ToLowerCase(Tail(s))

\* Array.prototype.slice(0, n)
Slice0(list, n) == SubSeq(list, 1, Min(n, Len(list)))

\* Array.prototype.filter, keeping the order
RECURSIVE FilterIdx(_, _, _)
FilterIdx(list, keep, i) ==
    IF i > Len(list) THEN <<>>
    ELSE (IF i \in keep THEN <<list[i]>> ELSE <<>>) \o FilterIdx(list, keep, i + 1)

\* Array.prototype.sort(compareFn) with a consistent compareFn: the sort is
\* stable (ECMAScript 2019), so each element's place is the number of
\* elements that compare before it plus the equal ones that precede it.
\* cmp[i][j] is SortCompare(list[i], list[j]): NaN has become +0.
StableOrder(list, cmp) ==
    LET n == Len(list)
        rank(i) == 1 + Cardinality({j \in 1..n :
                        cmp[j][i] < 0 \/ (cmp[j][i] = 0 /\ j < i)})
    IN  [k \in 1..n |-> list[CHOOSE i \in 1..n : rank(i) = k]]

\* ECMAScript's "consistent comparison function" for the elements of a list
ConsistentComparator(list, cmp) ==
    LET n == Len(list) IN
    /\ \A i \in 1..n : cmp[i][i] = 0
    /\ \A i, j \in 1..n : cmp[i][j] = 0 => cmp[j][i] = 0
    /\ \A i, j, k \in 1..n :
        /\ (cmp[i][j] = 0 /\ cmp[j][k] = 0) => cmp[i][k] = 0
        /\ (cmp[i][j] < 0 /\ cmp[j][k] < 0) => cmp[i][k] < 0
        /\ (cmp[i][j] > 0 /\ cmp[j][k] > 0) => cmp[i][k] > 0

\* The orders of a list in which no element is followed directly by one the
\* comparator puts before it
Orderings(list, cmp) ==
    LET n == Len(list) IN
    {[k \in 1..n |-> list[p[k]]] :
        p \in {q \in Permutations(1..n) :
                \A k \in 1..(n - 1) : cmp[q[k]][q[k + 1]] <= 0}}

\* The results Array.prototype.sort may give.  With a consistent comparator
\* it is the stable order.  Otherwise the order is implementation-defined
\* (ECMAScript 23.1.3.30): the engines' insertion and merge sorts still
\* return the elements with no two neighbours the comparator puts the other
\* way round, and which of those orders comes out depends on the engine.
SortOutcomes(list, cmp) ==
    IF ConsistentComparator(list, cmp)
    THEN {StableOrder(list, cmp)}
    ELSE Orderings(list, cmp)

-----------------------------------------------------------------------------
(* Program constants *)

HoursPerDay == 24
HIGH_VALUE == 70
DEFAULT_SCORE == 50
KEY_LENGTH == 50
TIMELINE_LIMIT == 8
NEWS_PER_SOURCE == 10
INITIAL_RANGE == 7
DEFAULT_CONFIDENCE == 50
JOB_MIN_SCORE == 15
JOBS_SHOWN == 8
ORGS_SHOWN == 8
HIGH_CONFIDENCE == 70
MODERATE_CONFIDENCE == 40
NEWS_LIMIT == 8

-----------------------------------------------------------------------------
(* renderNews: allNewsItems *)

relevanceCompare(a, b) == OrNum(b.relevance_score, 0) - OrNum(a.relevance_score, 0)

sortByRelevance(news) ==
    StableOrder(news, [i \in 1..Len(news) |-> [j \in 1..Len(news) |->
                        relevanceCompare(news[i], news[j])]])

\* the first 10 of each source as the snapshot lists them, merged and sorted
renderNewsFirstTen(recentNews) ==
    LET n == Len(recentNews)
        googleNews == Slice0(FilterIdx(recentNews,
                        {i \in 1..n : recentNews[i].source # "duckduckgo"}, 1),
                        NEWS_PER_SOURCE)
        ddgNews == Slice0(FilterIdx(recentNews,
                        {i \in 1..n : recentNews[i].source = "duckduckgo"}, 1),
                        NEWS_PER_SOURCE)
    IN  sortByRelevance(googleNews \o ddgNews)

\* the top 10 of each source, merged and sorted by relevance
renderNews(recentNews) ==
    LET n == Len(recentNews)
        googleNews == Slice0(sortByRelevance(FilterIdx(recentNews,
                        {i \in 1..n : recentNews[i].source # "duckduckgo"}, 1)),
                        NEWS_PER_SOURCE)
        ddgNews == Slice0(sortByRelevance(FilterIdx(recentNews,
                        {i \in 1..n : recentNews[i].source = "duckduckgo"}, 1)),
                        NEWS_PER_SOURCE)
    IN  sortByRelevance(googleNews \o ddgNews)

-----------------------------------------------------------------------------
(* renderTimeline *)

parseDate(d) ==
    IF d = undefinedNum THEN 0
    ELSE IF d = unparsable THEN NaN
    ELSE d

\* e.date || e.timestamp
dateOf(e) == IF e.date # undefinedNum THEN e.date ELSE e.timestamp

isHighValue(n) == OrNum(n.relevance_score, 0) >= HIGH_VALUE

newsEvent(n, t) ==
    [type |-> "news", title |-> n.title,
     date |-> IF n.date # undefinedNum THEN n.date ELSE t,
     timestamp |-> undefinedNum,
     score |-> n.relevance_score, scoreLabel |-> "relevance"]

isLegacyType(e) == e.type = "job_posting" \/ e.type = "organization"

legacyEvent(e) ==
    [type |-> e.type, title |-> e.title, date |-> e.date,
     timestamp |-> e.timestamp,
     score |-> OrNum(e.score, DEFAULT_SCORE),
     scoreLabel |-> IF e.type = "job_posting" THEN "suspicion" ELSE "risk"]

RECURSIVE MapNews(_, _, _)
MapNews(news, t, i) ==
    IF i > Len(news) THEN <<>>
    ELSE (IF isHighValue(news[i]) THEN <<newsEvent(news[i], t)>> ELSE <<>>)
         \o MapNews(news, t, i + 1)

RECURSIVE MapLegacy(_, _)
MapLegacy(events, i) ==
    IF i > Len(events) THEN <<>>
    ELSE (IF isLegacyType(events[i]) THEN <<legacyEvent(events[i])>> ELSE <<>>)
         \o MapLegacy(events, i + 1)

\* highValueEvents before the dedupe: news first, then the stored timeline
buildHighValueEvents(news, events, t) == MapNews(news, t, 1) \o MapLegacy(events, 1)

dedupeKeyWholeTitle(e) == OrStr(e.title, "")

dedupeKey(e) == Substring0(OrStr(e.title, ""), KEY_LENGTH)

RECURSIVE DedupeFrom(_, _, _)
DedupeFrom(events, seen, i) ==
    IF i > Len(events) THEN <<>>
    ELSE LET key == dedupeKey(events[i]) IN
         IF key \in seen THEN DedupeFrom(events, seen, i + 1)
         ELSE <<events[i]>> \o DedupeFrom(events, seen \cup {key}, i + 1)

RECURSIVE DedupeToggle(_, _, _)
DedupeToggle(events, seen, i) ==
    IF i > Len(events) THEN <<>>
    ELSE LET key == dedupeKey(events[i]) IN
         IF key \in seen THEN DedupeToggle(events, seen \ {key}, i + 1)
         ELSE <<events[i]>> \o DedupeToggle(events, seen \cup {key}, i + 1)

dedupeForgetful(events) == DedupeToggle(events, {}, 1)

dedupe(events) == DedupeFrom(events, {}, 1)

inRangeStrict(e, days, t) ==
    NumGeq(parseDate(dateOf(e)), t - days * HoursPerDay + 1)

inRange(e, days, t) ==
    NumGeq(parseDate(dateOf(e)), t - days * HoursPerDay)

filterByRange(events, days, t) ==
    IF days = all THEN events
    ELSE FilterIdx(events, {i \in 1..Len(events) : inRange(events[i], days, t)}, 1)

timelineCompare(a, b) ==
    LET scoreDiff == OrNum(b.score, 0) - OrNum(a.score, 0) IN
    IF scoreDiff # 0 THEN scoreDiff
    ELSE NumSub(parseDate(dateOf(b)), parseDate(dateOf(a)))

\* SortCompare: a NaN from the comparator counts as +0
timelineCmp(list) ==
    [i \in 1..Len(list) |-> [j \in 1..Len(list) |->
        LET v == timelineCompare(list[i], list[j]) IN IF v = NaN THEN 0 ELSE v]]

timelineSortOutcomes(list) == SortOutcomes(list, timelineCmp(list))

displayLimitCollapsed(expanded, total) == TIMELINE_LIMIT

displayLimit(expanded, total) == IF expanded THEN total ELSE TIMELINE_LIMIT

\* renderTimeline raises: the receiver of substring in the dedupe key
renderTimelineThrows(news, events, t) ==
    LET highValueEvents == buildHighValueEvents(news, events, t) IN
    \E i \in 1..Len(highValueEvents) : TypeError(OrStr(highValueEvents[i].title, ""))

\* renderTimeline(days): reads allNewsItems, allTimelineEvents and
\* timelineExpanded as given, writes the DOM (timelineView)
renderTimeline(days, news, events, expanded, t) ==
    LET highValueEvents == buildHighValueEvents(news, events, t)
        deduped == dedupe(highValueEvents)
    IN  \E sorted \in timelineSortOutcomes(filterByRange(deduped, days, t)) :
            timelineView' =
                [days |-> days, at |-> t,
                 highValueEvents |-> highValueEvents,
                 deduped |-> deduped,
                 filtered |-> sorted,
                 displayItems |-> Slice0(sorted, displayLimit(expanded, Len(sorted))),
                 seeMore |-> IF Len(sorted) > TIMELINE_LIMIT
                             THEN Len(sorted) - TIMELINE_LIMIT ELSE 0]

-----------------------------------------------------------------------------
(* Calendar arithmetic of Date: getMonth / setMonth, in UTC *)

daysFromCivil(y, m, d) ==
    LET yy == IF m <= 2 THEN y - 1 ELSE y
        era == yy \div 400
        yoe == yy - era * 400
        mp == IF m > 2 THEN m - 3 ELSE m + 9
        doy == (153 * mp + 2) \div 5 + d - 1
        doe == yoe * 365 + yoe \div 4 - yoe \div 100 + doy
    IN  era * 146097 + doe - 719468

civilFromDays(z0) ==
    LET z == z0 + 719468
        era == z \div 146097
        doe == z - era * 146097
        yoe == (doe - doe \div 1460 + doe \div 36524 - doe \div 146096) \div 365
        doy == doe - (365 * yoe + yoe \div 4 - yoe \div 100)
        mp == (5 * doy + 2) \div 153
        d == doy - (153 * mp + 2) \div 5 + 1
        m == IF mp < 10 THEN mp + 3 ELSE mp - 9
    IN  [y |-> yoe + era * 400 + (IF m <= 2 THEN 1 ELSE 0), m |-> m, d |-> d]

\* const sixMonthsAgo = new Date(); sixMonthsAgo.setMonth(sixMonthsAgo.getMonth() - 6)
\* the day of the month and the time of day are kept; a day the target month
\* does not have runs over into the next month (MakeDay)
sixMonthsAgo(t) ==
    LET c == civilFromDays(t \div HoursPerDay)
        y == IF c.m > 6 THEN c.y ELSE c.y - 1
        m == IF c.m > 6 THEN c.m - 6 ELSE c.m + 6
    IN  (daysFromCivil(y, m, 1) + c.d - 1) * HoursPerDay + (t % HoursPerDay)

-----------------------------------------------------------------------------
(* generateConnections *)

cities == <<"dallas", "los angeles", "new york", "chicago", "houston", "phoenix",
            "philadelphia", "san antonio", "san diego", "austin", "portland",
            "seattle", "minneapolis">>

\* const newsLocations = new Set(): lower-cased locations, and the listed
\* cities a title mentions
hasLocationUnguarded(n) == TRUE

\* if (n.location)
hasLocation(n) == OrStr(n.location, "") # ""

newsLocations(news) ==
    LET titles == {ToLowerCase(OrStr(news[i].title, "")) : i \in 1..Len(news)} IN
    {ToLowerCase(news[i].location) :
        i \in {k \in 1..Len(news) : hasLocation(news[k])}}
    \cup
    {cities[c] : c \in {k \in 1..Len(cities) : \E t \in titles : Includes(t, cities[k])}}

isNearNewsCaseSensitive(j, locations) == OrStr(j.city, "") \in locations

isNearNews(j, locations) == ToLowerCase(OrStr(j.city, "")) \in locations

jobsNearNews(jobs, news) ==
    LET locations == newsLocations(news) IN
    FilterIdx(jobs, {i \in 1..Len(jobs) : isNearNews(jobs[i], locations)}, 1)

\* `${x?.substring(0, n)}` in a template literal
OptSubstring(x, n) == IF x = undefined THEN "undefined" ELSE Substring0(x, n)

geoProbabilityUncapped(count) == 60 + count * 5

geoProbability(count) == Min(60 + count * 5, 85)

geoEvidence(j) ==
    [type |-> "Job",
     detail |-> OptSubstring(j.title, 40) \o " in " \o OrStr(j.city, "Unknown")]

geographicMatch(jobs, news) ==
    LET near == jobsNearNews(jobs, news) IN
    IF Len(near) > 0
    THEN <<[type |-> "Geographic Match",
            description |-> ToString(Len(near)) \o
                " suspicious job posting(s) found in cities with recent protest-related news coverage.",
            probability |-> geoProbability(Len(near)),
            evidence |-> [k \in 1..Min(2, Len(near)) |-> geoEvidence(near[k])]]>>
    ELSE <<>>

isSuspiciousName(o) ==
    LET name == ToLowerCase(OrStr(o.name, "")) IN
    \/ Includes(name, "freedom")
    \/ Includes(name, "liberty")
    \/ Includes(name, "citizens for")
    \/ Includes(name, "americans for")

suspiciousNames(orgs) ==
    FilterIdx(orgs, {i \in 1..Len(orgs) : isSuspiciousName(orgs[i])}, 1)

namingThresholdTwo(count) == count >= 2

namingThreshold(count) == count >= 3

namingProbability(count) == Min(55 + count * 3, 80)

namingPattern(orgs) ==
    LET sus == suspiciousNames(orgs) IN
    IF namingThreshold(Len(sus))
    THEN <<[type |-> "Naming Pattern",
            description |-> ToString(Len(sus)) \o
                " organizations using generic patriotic naming patterns commonly associated with astroturf groups.",
            probability |-> namingProbability(Len(sus)),
            evidence |-> [k \in 1..Min(3, Len(sus)) |->
                [type |-> "Org",
                 detail |-> IF sus[k].name = undefined THEN undefined
                            ELSE Substring0(sus[k].name, 45)]]]>>
    ELSE <<>>

\* new Date(text): the time of a date field that is present
newDate(d) == IF d = unparsable THEN NaN ELSE d

isRecentHighRisk(o, t) ==
    /\ o.first_file_date # undefinedNum
    /\ newDate(o.first_file_date) # NaN
    /\ newDate(o.first_file_date) > sixMonthsAgo(t)
    /\ OrNum(o.risk_score, 0) >= 70

recentOrgs(orgs, t) ==
    FilterIdx(orgs, {i \in 1..Len(orgs) : isRecentHighRisk(orgs[i], t)}, 1)

recentProbability(count) == Min(50 + count * 10, 75)

\* the filing date as written in the record
dateText(d) == IF d = unparsable THEN "unparsable" ELSE ToString(d)

newHighRiskOrgs(orgs, t) ==
    LET recent == recentOrgs(orgs, t) IN
    IF Len(recent) > 0
    THEN <<[type |-> "New High-Risk Orgs",
            description |-> ToString(Len(recent)) \o
                " high-risk organization(s) filed within the last 6 months, suggesting possible rapid mobilization.",
            probability |-> recentProbability(Len(recent)),
            evidence |-> [k \in 1..Min(2, Len(recent)) |->
                [type |-> "Filed",
                 detail |-> OptSubstring(recent[k].name, 35) \o " (" \o
                            dateText(recent[k].first_file_date) \o ")"]]]>>
    ELSE <<>>

mentionsPaid(n) ==
    \/ Includes(ToLowerCase(OrStr(n.title, "")), "paid")
    \/ Includes(OrStr(n.query, ""), "paid")

paidProtestNews(news) ==
    FilterIdx(news, {i \in 1..Len(news) : mentionsPaid(news[i])}, 1)

clusterProbability(count) == Min(45 + count * 5, 70)

newsCluster(news) ==
    LET paid == paidProtestNews(news) IN
    IF Len(paid) >= 3
    THEN <<[type |-> "News Cluster",
            description |-> ToString(Len(paid)) \o
                " news articles specifically mentioning \"paid\" protesters or actors in recent coverage.",
            probability |-> clusterProbability(Len(paid)),
            evidence |-> [k \in 1..Min(2, Len(paid)) |->
                [type |-> "News",
                 detail |-> IF paid[k].title = undefined THEN undefined
                            ELSE Substring0(paid[k].title, 50)]]]>>
    ELSE <<>>

sortByProbability(connections) ==
    StableOrder(connections,
        [i \in 1..Len(connections) |-> [j \in 1..Len(connections) |->
            connections[j].probability - connections[i].probability]])

generateConnections(mem, t) ==
    LET jobs == OrList(mem, "jobPostings")
        news == OrList(mem, "recentNews")
        orgs == OrList(mem, "flaggedOrganizations")
    IN  sortByProbability(geographicMatch(jobs, news)
                          \o namingPattern(orgs)
                          \o newHighRiskOrgs(orgs, t)
                          \o newsCluster(news))

\* generateConnections raises: the receivers of its method calls, each
\* behind the guard or default the code gives it
generateConnectionsThrows(mem) ==
    LET jobs == OrList(mem, "jobPostings")
        news == OrList(mem, "recentNews")
        orgs == OrList(mem, "flaggedOrganizations")
    IN  \/ \E i \in 1..Len(news) :
            \/ hasLocation(news[i]) /\ TypeError(news[i].location)
            \/ TypeError(OrStr(news[i].title, ""))
            \/ TypeError(OrStr(news[i].query, ""))
        \/ \E i \in 1..Len(jobs) : TypeError(OrStr(jobs[i].city, ""))
        \/ \E i \in 1..Len(orgs) : TypeError(OrStr(orgs[i].name, ""))

\* renderConnections: what allConnections becomes
renderConnections(mem, t) ==
    LET connections == OrList(mem, "connections") IN
    IF Len(connections) = 0 THEN generateConnections(mem, t) ELSE connections

-----------------------------------------------------------------------------
(* renderStats, renderConfidence, renderJobs, renderOrganizations *)

\* memory.field || d on a number the snapshot may lack
OrNumField(mem, field, d) == IF field \in DOMAIN mem THEN OrNum(mem[field], d) ELSE d

\* renderStats: the text of #stat-events
renderStats(mem) ==
    LET recentNews == OrList(mem, "recentNews") IN
    Cardinality({i \in 1..Len(recentNews) :
                    NumGeq(OrNum(recentNews[i].relevance_score, 0), HIGH_VALUE)})

\* the text #confidence-desc holds in the page before any script ran
pageText == "<index.html>"

\* renderConfidence: the number before the '%' of #confidence-percent and
\* the text of #confidence-desc, which held desc before the call
renderConfidence(mem, desc) ==
    LET conf == OrNumField(mem, "systemConfidence", DEFAULT_CONFIDENCE)
        notes == OrList(mem, "agentNotes")
    IN  [percent |-> conf,
         desc |-> IF Len(notes) > 0
                  THEN OrStr(notes[1].summary, "Awaiting analysis...")
                  ELSE desc]

suspicionCompare(a, b) == OrNum(b.suspicion_score, 0) - OrNum(a.suspicion_score, 0)

\* renderJobs: the postings of #job-list
renderJobs(mem) ==
    LET jobPostings == OrList(mem, "jobPostings")
        kept == FilterIdx(jobPostings,
                    {i \in 1..Len(jobPostings) :
                        NumGeq(OrNum(jobPostings[i].suspicion_score, 0), JOB_MIN_SCORE)}, 1)
        jobs == StableOrder(kept, [i \in 1..Len(kept) |-> [j \in 1..Len(kept) |->
                                    suspicionCompare(kept[i], kept[j])]])
    IN  Slice0(jobs, JOBS_SHOWN)

\* renderOrganizations: the organizations of #org-list
renderOrganizations(mem) == Slice0(OrList(mem, "flaggedOrganizations"), ORGS_SHOWN)

NoPanels ==
    [events |-> 0, confidence |-> [percent |-> undefinedNum, desc |-> pageText],
     jobs |-> <<>>, orgs |-> <<>>]

-----------------------------------------------------------------------------
(* The page: init() and the controls *)

\* init(), after both fetches: every render in the order of the code
InitApp(mem) ==
    /\ pc = "start"
    /\ memory' = mem
    /\ panels' = [events |-> renderStats(mem),
                  confidence |-> renderConfidence(mem, panels.confidence.desc),
                  jobs |-> renderJobs(mem),
                  orgs |-> renderOrganizations(mem)]
    /\ allNewsItems' = renderNews(OrList(mem, "recentNews"))
    /\ IF Len(OrList(mem, "connections")) = 0 /\ generateConnectionsThrows(mem)
       THEN /\ pc' = "failed"
            /\ UNCHANGED <<allConnections, allTimelineEvents, timelineView>>
       ELSE /\ allConnections' = renderConnections(mem, now)
            /\ allTimelineEvents' = OrList(mem, "timeline")
            /\ IF renderTimelineThrows(allNewsItems', allTimelineEvents', now)
               THEN pc' = "failed" /\ UNCHANGED timelineView
               ELSE /\ pc' = "loaded"
                    /\ renderTimeline(currentRange, allNewsItems', allTimelineEvents',
                                      timelineExpanded, now)
    /\ UNCHANGED <<now, currentRange, timelineExpanded, newsExpanded, state, runs,
                   displayed, scored>>

\* the handler without timelineExpanded = false
ClickRangeKeepsExpanded(range) ==
    /\ pc = "loaded"
    /\ currentRange' = range
    /\ timelineExpanded' = timelineExpanded
    /\ renderTimeline(range, allNewsItems, allTimelineEvents, timelineExpanded, now)
    /\ UNCHANGED <<pc, now, memory, allTimelineEvents, allNewsItems, allConnections,
                   newsExpanded, panels, state, runs, displayed, scored>>

\* a click on a .range-btn (setupTimelineControls)
ClickRange(range) ==
    /\ pc = "loaded"
    /\ currentRange' = range
    /\ timelineExpanded' = FALSE
    /\ renderTimeline(range, allNewsItems, allTimelineEvents, FALSE, now)
    /\ UNCHANGED <<pc, now, memory, allTimelineEvents, allNewsItems, allConnections,
                   newsExpanded, panels, state, runs, displayed, scored>>

\* the handler with a renderTimeline that sorts the stored lists themselves
ClickSeeMoreSortsStored ==
    /\ pc = "loaded"
    /\ Len(timelineView.filtered) > TIMELINE_LIMIT
    /\ timelineExpanded' = ~timelineExpanded
    /\ renderTimeline(currentRange, allNewsItems, allTimelineEvents, timelineExpanded', now)
    /\ allTimelineEvents' \in timelineSortOutcomes(allTimelineEvents)
    /\ allNewsItems' = allNewsItems
    /\ UNCHANGED <<pc, now, memory, currentRange, allConnections, newsExpanded, panels,
                   state, runs, displayed, scored>>

\* a click on #timeline-see-more (setupSeeMoreButtons); the button is
\* displayed when more than 8 events passed the filter
ClickSeeMore ==
    /\ pc = "loaded"
    /\ Len(timelineView.filtered) > TIMELINE_LIMIT
    /\ timelineExpanded' = ~timelineExpanded
    /\ renderTimeline(currentRange, allNewsItems, allTimelineEvents, timelineExpanded', now)
    /\ UNCHANGED <<pc, now, memory, currentRange, allTimelineEvents, allNewsItems,
                   allConnections, newsExpanded, panels, state, runs, displayed,
                   scored>>

\* a click on #news-see-more (setupSeeMoreButtons); the button is displayed
\* when allNewsItems holds more than 8 articles
ClickNewsSeeMore ==
    /\ pc = "loaded"
    /\ Len(allNewsItems) > NEWS_LIMIT
    /\ newsExpanded' = ~newsExpanded
    /\ allNewsItems' = renderNews(allNewsItems)
    /\ UNCHANGED <<pc, now, memory, currentRange, allTimelineEvents, allConnections,
                   timelineExpanded, timelineView, panels, state, runs, displayed,
                   scored>>

-----------------------------------------------------------------------------
(* The monitor page (v1): init() loads the data once and then every        *)
(* CONFIG.refreshInterval.  A loadData() call waits for both fetches, then *)
(* for the body of memory.json, then for the body of alerts.json; other    *)
(* calls run while it waits.                                               *)

\* state.memory before the first load: null?.field is undefined
null == [lastScan |-> 0]

\* renderConfidence of the monitor page: the number before the '%' and the
\* text of #confidence-desc
renderConfidenceMonitor(mem) ==
    LET confidence == OrNumField(mem, "systemConfidence", 0)
        notes == OrList(mem, "agentNotes")
        latestNote == IF Len(notes) > 0 THEN notes[1] ELSE [summary |-> undefined]
    IN  [percent |-> confidence,
         desc |-> IF OrStr(latestNote.summary, "") # ""
                    THEN latestNote.summary
                  ELSE IF NumGeq(confidence, HIGH_CONFIDENCE)
                    THEN "High confidence in current detections. Multiple corroborating indicators found."
                  ELSE IF NumGeq(confidence, MODERATE_CONFIDENCE)
                    THEN "Moderate confidence. Some patterns detected but more data needed."
                  ELSE "Low confidence. Insufficient data for reliable detection."]

\* renderAll(): every panel is drawn from state
renderAll(st) ==
    [memory |-> st.memory, alerts |-> st.alerts,
     confidence |-> renderConfidenceMonitor(st.memory)]

NothingDisplayed ==
    [memory |-> null, alerts |-> <<>>,
     confidence |-> [percent |-> undefinedNum, desc |-> pageText]]

\* what a fetch of one file resolves to: a response that is ok and holds
\* JSON, one that is not ok, one that is ok and whose body is not JSON
Responses ==
    [memoryRes : {"ok", "notOk", "unparsable"}, alertsRes : {"ok", "notOk", "unparsable"}]

\* the loadData() calls of a behaviour
MaxRuns == 3

\* loadData() is called: by init(), and by the interval timer that init()
\* sets once its own call has returned.  The server holds file and
\* alertsFile.
loadData(file, alertsFile) ==
    /\ Len(runs) < MaxRuns
    /\ IF Len(runs) = 0 THEN TRUE ELSE runs[1].stage = "done"
    /\ runs' = Append(runs, [stage |-> "fetch", file |-> file, alertsFile |-> alertsFile,
                             memoryRes |-> "pending", alertsRes |-> "pending",
                             failing |-> FALSE])
    /\ UNCHANGED <<pc, now, memory, currentRange, allTimelineEvents, allNewsItems,
                   allConnections, timelineExpanded, timelineView, newsExpanded,
                   panels, state, displayed, scored>>

\* a fetch rejects (network error): Promise.all rejects, the catch block logs
FetchRejects(r) ==
    /\ r \in DOMAIN runs
    /\ runs[r].stage = "fetch"
    /\ runs' = [runs EXCEPT ![r].stage = "done", ![r].failing = TRUE]
    /\ UNCHANGED <<pc, now, memory, currentRange, allTimelineEvents, allNewsItems,
                   allConnections, timelineExpanded, timelineView, newsExpanded,
                   panels, state, displayed, scored>>

\* both fetches resolve; the call goes on to its next await, or to
\* renderAll() when neither response is ok
FetchResolves(r, res) ==
    /\ r \in DOMAIN runs
    /\ runs[r].stage = "fetch"
    /\ runs' = [runs EXCEPT ![r].memoryRes = res.memoryRes,
                            ![r].alertsRes = res.alertsRes,
                            ![r].failing = res.memoryRes # "ok" \/ res.alertsRes # "ok",
                            ![r].stage = IF res.memoryRes # "notOk" THEN "memoryJson"
                                         ELSE IF res.alertsRes # "notOk" THEN "alertsJson"
                                         ELSE "done"]
    /\ displayed' = IF res.memoryRes = "notOk" /\ res.alertsRes = "notOk"
                    THEN renderAll(state) ELSE displayed
    /\ UNCHANGED <<pc, now, memory, currentRange, allTimelineEvents, allNewsItems,
                   allConnections, timelineExpanded, timelineView, newsExpanded,
                   panels, state, scored>>

\* memoryRes.json() settles: state.memory is assigned, or the catch block
\* logs; then the next await, or renderAll()
MemoryJson(r) ==
    /\ r \in DOMAIN runs
    /\ runs[r].stage = "memoryJson"
    /\ IF runs[r].memoryRes = "unparsable"
       THEN /\ runs' = [runs EXCEPT ![r].stage = "done"]
            /\ UNCHANGED <<state, displayed>>
       ELSE /\ state' = [state EXCEPT !.memory = runs[r].file]
            /\ IF runs[r].alertsRes # "notOk"
               THEN /\ runs' = [runs EXCEPT ![r].stage = "alertsJson"]
                    /\ UNCHANGED displayed
               ELSE /\ runs' = [runs EXCEPT ![r].stage = "done"]
                    /\ displayed' = renderAll(state')
    /\ UNCHANGED <<pc, now, memory, currentRange, allTimelineEvents, allNewsItems,
                   allConnections, timelineExpanded, timelineView, newsExpanded,
                   panels, scored>>

\* alertsRes.json() settles: state.alerts is assigned and renderAll() runs,
\* or the catch block logs
AlertsJson(r) ==
    /\ r \in DOMAIN runs
    /\ runs[r].stage = "alertsJson"
    /\ runs' = [runs EXCEPT ![r].stage = "done"]
    /\ IF runs[r].alertsRes = "unparsable"
       THEN UNCHANGED <<state, displayed>>
       ELSE /\ state' = [state EXCEPT !.alerts = OrList(runs[r].alertsFile, "alerts")]
            /\ displayed' = renderAll(state')
    /\ UNCHANGED <<pc, now, memory, currentRange, allTimelineEvents, allNewsItems,
                   allConnections, timelineExpanded, timelineView, newsExpanded,
                   panels, scored>>

-----------------------------------------------------------------------------
(* The scorer: scoreJob and scoreOrg.  The dashboard only reads the scores *)
(* (suspicion_score, risk_score); the rules are the documented ones.       *)

HIGH_SIGNAL_POINTS == 25
MEDIUM_POINTS == 10
URGENCY_POINTS == 5
MAX_SCORE == 100

highSignalPhrases == <<"paid protest", "hold signs", "same day pay", "cash daily">>
mediumPhrases == <<"protest", "rally", "canvass", "grassroots", "political">>
urgencyPhrases == <<"urgent", "immediate", "today", "asap">>

Max(a, b) == IF a >= b THEN a ELSE b

clamp(total) == Max(0, Min(total, MAX_SCORE))

\* every occurrence of a phrase of a tier counted
occurrences(text, phrases) ==
    Cardinality({ki \in (1..Len(phrases)) \X (1..Len(text)) :
        /\ ki[2] + Len(phrases[ki[1]]) - 1 <= Len(text)
        /\ SubSeq(text, ki[2], ki[2] + Len(phrases[ki[1]]) - 1) = phrases[ki[1]]})

\* the phrases of a tier that occur in the text, each counted once
matches(text, phrases) ==
    Cardinality({k \in 1..Len(phrases) : Includes(text, phrases[k])})

jobText(job) ==
    ToLowerCase(OrStr(job.title, "") \o " " \o OrStr(job.description, ""))

jobTotal(job) ==
    LET text == jobText(job) IN
      HIGH_SIGNAL_POINTS * matches(text, highSignalPhrases)
    + MEDIUM_POINTS * matches(text, mediumPhrases)
    + URGENCY_POINTS * matches(text, urgencyPhrases)

scoreJobUnclamped(job) == jobTotal(job)

scoreJob(job) == clamp(jobTotal(job))

HoursPerYear == 365 * HoursPerDay

genericNamePatterns == <<"citizens for", "americans for", "families for", "voices for",
                         "action fund", "action pac", "freedom", "liberty">>

highActivityStates == {"TX", "FL", "OH", "PA", "GA"}

RECURSIVE wordCount(_)
wordCount(name) ==
    IF name = "" THEN 0
    ELSE IF Len(name) = 1 THEN 1
    ELSE (IF Head(name) = " " /\ Head(Tail(name)) # " " THEN 1 ELSE 0)
         + wordCount(Tail(name))

filingPoints(org, scanDate) ==
    IF org.first_file_date < 0 THEN 0
    ELSE IF scanDate - org.first_file_date <= 2 * HoursPerYear THEN 25
    ELSE IF scanDate - org.first_file_date <= 5 * HoursPerYear THEN 15
    ELSE 0

orgTotal(org, scanDate) ==
    LET name == ToLowerCase(OrStr(org.name, ""))
        generic == matches(name, genericNamePatterns) > 0
    IN    filingPoints(org, scanDate)
        + (IF generic THEN 15 ELSE 0)
        + (IF generic /\ wordCount(name) = 3 THEN 10 ELSE 0)
        + (IF org.state = "DE" THEN 15 ELSE 0)
        + (IF generic /\ org.high_revenue THEN 15 ELSE 0)
        + (IF org.state \in highActivityStates THEN 5 ELSE 0)

scoreOrg(org, scanDate) == clamp(orgTotal(org, scanDate))

\* one record is scored in a behaviour
ScoreJob(job) ==
    /\ scored.kind = "none"
    /\ scored' = [kind |-> "job", input |-> job, score |-> scoreJob(job)]
    /\ UNCHANGED <<pc, now, memory, currentRange, allTimelineEvents, allNewsItems,
                   allConnections, timelineExpanded, timelineView, newsExpanded,
                   panels, state, runs, displayed>>

ScoreOrg(org) ==
    /\ scored.kind = "none"
    /\ scored' = [kind |-> "org", input |-> org, score |-> scoreOrg(org, now)]
    /\ UNCHANGED <<pc, now, memory, currentRange, allTimelineEvents, allNewsItems,
                   allConnections, timelineExpanded, timelineView, newsExpanded,
                   panels, state, runs, displayed>>

-----------------------------------------------------------------------------
(* Bounds and inputs *)

MaxEvents == 3
MaxBatch == 11
MaxTicks == 1

\* 2026-08-31 12:00 UTC
Now0 == daysFromCivil(2026, 8, 31) * HoursPerDay + 12

\* the wall clock advances by an hour
Tick ==
    /\ now < Now0 + MaxTicks
    /\ now' = now + 1
    /\ UNCHANGED <<pc, memory, currentRange, allTimelineEvents, allNewsItems,
                   allConnections, timelineExpanded, timelineView, newsExpanded,
                   panels, state, runs, displayed, scored>>

RangeButtons == {all, 7, 30}

SeqsUpTo(S, n) == UNION {[1..k -> S] : k \in 0..n}

News(title, date, relevance, source, location, query) ==
    [title |-> title, date |-> date, relevance_score |-> relevance,
     source |-> source, location |-> location, query |-> query]

Legacy(type, title, date, timestamp, score) ==
    [type |-> type, title |-> title, date |-> date, timestamp |-> timestamp,
     score |-> score]

Snapshot(news, timeline, jobs, orgs, conns) ==
    [recentNews |-> news, timeline |-> timeline, jobPostings |-> jobs,
     flaggedOrganizations |-> orgs, connections |-> conns]

\* two titles that agree on their first 50 characters and differ after them
LongTitle == "Paid protesters gather outside city hall in Dallas"
LongTitleA == LongTitle \o " today"
LongTitleB == LongTitle \o " again"

TimelineNews ==
    { News(LongTitleA, Now0 - 24, 90, "google", undefined, undefined),
      News(LongTitleB, Now0 - 7 * HoursPerDay, 90, "duckduckgo", undefined, undefined),
      News("Rally planned", undefinedNum, 70, "google", undefined, undefined),
      News("Council vote", unparsable, 90, "google", undefined, undefined) }

TimelineLegacy ==
    { Legacy("job_posting", LongTitleA, undefinedNum, undefinedNum, undefinedNum),
      Legacy("organization", "Liberty Fund filing", unparsable, undefinedNum, 90),
      Legacy("organization", "Action fund filing", undefinedNum, Now0 - 12, 90),
      Legacy("organization", undefined, Now0 - 40 * HoursPerDay, undefinedNum, 50) }

\* a batch: one low-relevance article, then k distinct high-relevance
\* articles of one source
BatchNews(k) ==
    <<News("Weather report", Now0 - 24, 60, "google", undefined, undefined)>>
    \o [i \in 1..k |-> News("Story " \o ToString(i), Now0 - i, 90, "google",
                            undefined, undefined)]

\* a stored timeline entry that is itself a news item
StoredNews == Legacy("news", "Old news", Now0 - 24, undefinedNum, 95)

\* stored events that carry the titles of the tenth and the eleventh article
ShadowEvents ==
    <<Legacy("organization", "Story 10", Now0 - 24, undefinedNum, 80),
      Legacy("organization", "Story 11", Now0 - 24, undefinedNum, 80)>>

\* k articles that alternate between the sources, with relevance 70, 80
\* and 90 in turn
MixedNews(k) ==
    [i \in 1..k |-> News("Report " \o ToString(i), Now0 - i, 70 + 10 * (i % 3),
                         IF i % 2 = 0 THEN "duckduckgo" ELSE "google",
                         undefined, undefined)]

\* stored events in rising score order
RisingEvents ==
    <<Legacy("organization", "Early filing", Now0 - 48, undefinedNum, 75),
      Legacy("job_posting", "Late posting", Now0 - 24, undefinedNum, 85)>>

\* titles that differ in surrounding whitespace or in letter case only, and
\* stored events with score 0 or of a type the timeline does not take
MaxEdge == 2

EdgeNews ==
    { News("Town hall rally", Now0 - 24, 80, "google", undefined, undefined),
      News("  Town hall rally ", Now0 - 48, 85, "google", undefined, undefined),
      News("TOWN HALL rally", Now0 - 72, 75, "duckduckgo", undefined, undefined) }

EdgeLegacy ==
    { Legacy("organization", "Zero score filing", Now0 - 24, undefinedNum, 0),
      Legacy("job_posting", "Town hall rally", Now0 - 24, undefinedNum, 0),
      Legacy("alert", "System alert", Now0 - 24, undefinedNum, 80) }

EdgeSnapshots ==
    UNION {{Snapshot(n, l, <<>>, <<>>, <<>>) :
                l \in SeqsUpTo(EdgeLegacy, MaxEdge - Len(n))} :
           n \in SeqsUpTo(EdgeNews, MaxEdge)}

TimelineSnapshots ==
    UNION {{Snapshot(n, l, <<>>, <<>>, <<>>) :
                l \in SeqsUpTo(TimelineLegacy, MaxEvents - Len(n))} :
           n \in SeqsUpTo(TimelineNews, MaxEvents)}
    \cup {Snapshot(BatchNews(k), <<StoredNews>>, <<>>, <<>>, <<>>) : k \in 0..MaxBatch}
    \cup {Snapshot(BatchNews(MaxBatch), <<StoredNews>> \o ShadowEvents, <<>>, <<>>, <<>>)}
    \cup {Snapshot(BatchNews(MaxBatch), RisingEvents, <<>>, <<>>, <<>>)}
    \cup {Snapshot(MixedNews(MaxBatch + 1), <<>>, <<>>, <<>>, <<>>)}
    \cup EdgeSnapshots

MaxJobs == 6
MaxOrgs == 9
MaxRecent == 3
MaxPaid == 6
MaxVariety == 3

Job(title, city, score) == [title |-> title, city |-> city, suspicion_score |-> score]

Org(name, filed, score) == [name |-> name, first_file_date |-> filed, risk_score |-> score]

\* the detectors by the number of records that match: n jobs in cities the
\* news names, m organizations with a patriotic name, k recent high-risk
\* organizations, c articles that mention "paid"
MatchingJobs(n) ==
    [i \in 1..n |-> Job("Event staff wanted " \o ToString(i),
                        IF i % 2 = 1 THEN "Dallas" ELSE "AUSTIN", 40)]

PatrioticNames == <<"Citizens for Freedom", "Americans For Liberty Now",
                    "LIBERTY PAC", "Texas Freedom Fund">>

PatrioticOrgs(m) ==
    [i \in 1..m |-> Org(PatrioticNames[((i - 1) % 4) + 1],
                        Now0 - 400 * HoursPerDay, 40)]

RecentRiskyOrgs(k) ==
    [i \in 1..k |-> Org("Policy Institute " \o ToString(i), Now0 - 24 * i, 70)]

PaidNews(c) ==
    [i \in 1..c |-> News("Actors PAID to attend hearing " \o ToString(i),
                         Now0 - i, 40, "google", undefined, undefined)]

LocalNews ==
    <<News("Protest in Austin draws crowds", Now0 - 24, 40, "google", "Dallas",
           "protest organizers")>>

CountSnapshot(n, m, k, c) ==
    Snapshot(LocalNews \o PaidNews(c), <<>>, MatchingJobs(n),
             PatrioticOrgs(m) \o RecentRiskyOrgs(k), <<>>)

\* every number of jobs and of articles, with no organization and with the
\* most; every number of organizations, with no job and article and with
\* the numbers that put three detectors at the same probability
CountSnapshots ==
    {CountSnapshot(n, mk[1], mk[2], c) :
        n \in 0..MaxJobs, c \in 0..MaxPaid, mk \in {<<0, 0>>, <<MaxOrgs, MaxRecent>>}}
    \cup {CountSnapshot(nc[1], m, k, nc[2]) :
        m \in 0..MaxOrgs, k \in 0..MaxRecent, nc \in {<<0, 0>>, <<2, 5>>}}

\* records that differ in letter case, in the fields they lack and in where
\* a city is named
VarietyJobs ==
    { Job("Paid Protest Organizer, Same Day Pay, No Experience", "Dallas", 65),
      Job(undefined, "new york", 30),
      Job("Canvasser", undefined, 20),
      Job("Sign holder", "Boise", 50) }

VarietyGeoNews ==
    { <<>>,
      <<News(undefined, Now0 - 24, 80, "google", "DALLAS", undefined)>>,
      <<News("Rally in New York draws crowd", Now0 - 24, 80, "google", undefined, undefined)>>,
      <<News("Budget talks", Now0 - 24, 80, "duckduckgo", "", undefined)>>,
      <<News("Budget talks", Now0 - 24, 80, "duckduckgo", "Boise, ID", undefined),
        News("Dallas council meets", Now0 - 24, 80, "google", undefined, undefined)>> }

VarietyOrgs ==
    { Org("Citizens For Progress", undefinedNum, 90),
      Org("LIBERTY Alliance", Now0 - 24, 70),
      Org(undefined, sixMonthsAgo(Now0), 90),
      Org("Action Fund", sixMonthsAgo(Now0) + 1, 70),
      Org("Freedom Works", unparsable, 95),
      Org("Americans for Prosperity Now", Now0 - 24, 69),
      Org("Policy Institute", daysFromCivil(2026, 3, 1) * HoursPerDay, 90) }

VarietyPaidNews ==
    { News("PAID actors fill the hearing", Now0 - 24, 40, "google", undefined, undefined),
      News("Budget talks", Now0 - 24, 40, "google", undefined, "paid protesters"),
      News("Council vote", Now0 - 24, 40, "google", undefined, "Paid protesters"),
      News(undefined, Now0 - 24, 40, "google", undefined, undefined) }

\* connections the backend supplies in memory.connections
Connection(type, probability) ==
    [type |-> type, description |-> "supplied by the backend", probability |-> probability,
     evidence |-> <<>>]

SuppliedConnections ==
    { Connection("Funding Link", 60), Connection("Shared Address", 80),
      Connection("Geographic Match", 80) }

SuppliedSnapshots ==
    {Snapshot(<<>>, <<>>, j, <<>>, c) :
        j \in {<<>>, MatchingJobs(1)},
        c \in SeqsUpTo(SuppliedConnections, MaxVariety) \ {<<>>}}

\* a snapshot that lacks some of its collections; with none of them it is
\* the {} init() uses when the fetch fails
Collections == {"recentNews", "timeline", "jobPostings", "flaggedOrganizations",
                "connections"}

Without(mem, missing) == [field \in DOMAIN mem \ missing |-> mem[field]]

PartialSnapshots ==
    {Without(Snapshot(LocalNews \o PaidNews(3), <<StoredNews>>, MatchingJobs(1),
                      RecentRiskyOrgs(1), <<>>), missing) :
        missing \in SUBSET Collections \ {{}}}

ConnectionSnapshots ==
    CountSnapshots
    \cup PartialSnapshots
    \cup SuppliedSnapshots
    \cup {Snapshot(n, <<>>, j, <<>>, <<>>) :
            n \in VarietyGeoNews, j \in SeqsUpTo(VarietyJobs, MaxVariety)}
    \cup {Snapshot(<<>>, <<>>, <<>>, o, <<>>) : o \in SeqsUpTo(VarietyOrgs, MaxVariety)}
    \cup {Snapshot(n, <<>>, <<>>, <<>>, <<>>) : n \in SeqsUpTo(VarietyPaidNews, MaxVariety)}

\* postings whose title strings together at most MaxPhrases of the phrases
MaxPhrases == 4

allPhrases == highSignalPhrases \o mediumPhrases \o urgencyPhrases

RECURSIVE JoinPhrases(_, _)
JoinPhrases(chosen, k) ==
    IF k > Len(allPhrases) THEN ""
    ELSE (IF k \in chosen THEN allPhrases[k] \o ", " ELSE "") \o JoinPhrases(chosen, k + 1)

RECURSIVE SubsetsUpTo(_, _)
SubsetsUpTo(S, n) ==
    IF n = 0 THEN {{}}
    ELSE LET smaller == SubsetsUpTo(S, n - 1) IN
         smaller \cup {c \cup {x} : c \in smaller, x \in S}

ScoredJob(title, description) == [title |-> title, description |-> description]

JobInputs ==
    {ScoredJob(JoinPhrases(chosen, 1), undefined) :
        chosen \in SubsetsUpTo(1..Len(allPhrases), MaxPhrases)}
    \cup { ScoredJob("Urgent! Paid Protest Organizer, Same Day Pay", undefined),
           ScoredJob(undefined, "HOLD SIGNS at the rally, cash daily"),
           ScoredJob("Protest, protest and protest again", "protest"),
           ScoredJob(undefined, undefined) }

ScoredOrg(name, filed, st, revenue) ==
    [name |-> name, first_file_date |-> filed, state |-> st, high_revenue |-> revenue]

OrgInputs ==
    {ScoredOrg(name, filed, st, revenue) :
        name \in {"Citizens for Freedom", "Liberty Action Fund", "Voices For Ohio Families",
                  "Acme Holdings", undefined},
        filed \in {undefinedNum, Now0 - HoursPerYear, Now0 - 2 * HoursPerYear,
                   Now0 - 2 * HoursPerYear - 1, Now0 - 6 * HoursPerYear},
        st \in {"DE", "TX", "WY", undefined},
        revenue \in BOOLEAN}

\* the confidence a snapshot carries: none, below, at and above each tier's
\* edge, outside 0..100
ConfidenceValues == {undefinedNum, -5, 0, 39, 40, 69, 70, 100, 101, 150}

Note(summary) == [summary |-> summary]

NoteLists ==
    { <<>>,
      <<Note("Coordinated hiring seen in Dallas")>>,
      <<Note(undefined)>>,
      <<Note("Filing surge in Delaware"), Note("Coordinated hiring seen in Dallas")>> }

ConfidenceSnapshots ==
    {[lastScan |-> 1]}
    \cup {[lastScan |-> 1, systemConfidence |-> c, agentNotes |-> n] :
            c \in ConfidenceValues, n \in NoteLists}

\* the files the server holds when the r-th loadData() call fetches them:
\* every scan writes both anew
MonitorMemory(r) == [lastScan |-> r]
MonitorAlerts(r) == [alerts |-> <<[timestamp |-> r]>>]

NoScore == [kind |-> "none", score |-> 0]

NoView ==
    [days |-> INITIAL_RANGE, at |-> 0, highValueEvents |-> <<>>, deduped |-> <<>>,
     filtered |-> <<>>, displayItems |-> <<>>, seeMore |-> 0]

Init ==
    /\ pc = "start"
    /\ now = Now0
    /\ memory = Snapshot(<<>>, <<>>, <<>>, <<>>, <<>>)
    /\ currentRange = INITIAL_RANGE
    /\ allTimelineEvents = <<>>
    /\ allNewsItems = <<>>
    /\ allConnections = <<>>
    /\ timelineExpanded = FALSE
    /\ timelineView = NoView
    /\ newsExpanded = FALSE
    /\ panels = NoPanels
    /\ state = [memory |-> null, alerts |-> <<>>]
    /\ runs = <<>>
    /\ displayed = NothingDisplayed
    /\ scored = NoScore

NextTimeline ==
    \/ \E mem \in TimelineSnapshots : InitApp(mem)
    \/ \E range \in RangeButtons : ClickRange(range)
    \/ ClickSeeMore
    \/ ClickNewsSeeMore
    \/ Tick

SpecTimeline == Init /\ [][NextTimeline]_vars

NextConnections ==
    \/ \E mem \in ConnectionSnapshots : InitApp(mem)
    \/ Tick

SpecConnections == Init /\ [][NextConnections]_vars

NextScorer ==
    \/ \E job \in JobInputs : ScoreJob(job)
    \/ \E org \in OrgInputs : ScoreOrg(org)

SpecScorer == Init /\ [][NextScorer]_vars

NextMonitor ==
    \/ loadData(MonitorMemory(Len(runs) + 1), MonitorAlerts(Len(runs) + 1))
    \/ \E r \in 1..MaxRuns : FetchRejects(r)
    \/ \E r \in 1..MaxRuns, res \in Responses : FetchResolves(r, res)
    \/ \E r \in 1..MaxRuns : MemoryJson(r)
    \/ \E r \in 1..MaxRuns : AlertsJson(r)

SpecMonitor == Init /\ [][NextMonitor]_vars

\* both pages' first load of one snapshot
NextConfidence ==
    \/ \E mem \in ConfidenceSnapshots : InitApp(mem)
    \/ \E mem \in ConfidenceSnapshots : Len(runs) = 0 /\ loadData(mem, [alerts |-> <<>>])
    \/ FetchRejects(1)
    \/ \E res \in Responses : FetchResolves(1, res)
    \/ MemoryJson(1)
    \/ AlertsJson(1)

SpecConfidence == Init /\ [][NextConfidence]_vars

-----------------------------------------------------------------------------
(* Properties of the timeline *)

Loaded == pc = "loaded"

\* a collection of the snapshot as the page read it
Given(field) == IF field \in DOMAIN memory THEN memory[field] ELSE <<>>

\* the first 50 characters of a title, an absent title counting as empty
TitleKey(title) ==
    IF title = undefined THEN ""
    ELSE IF Len(title) <= 50 THEN title ELSE SubSeq(title, 1, 50)

\* the time an event's date denotes: its date, else its timestamp, else the
\* epoch; NaN when the text does not parse
EventTime(e) ==
    LET d == IF e.date # undefinedNum THEN e.date ELSE e.timestamp IN
    IF d = undefinedNum THEN 0 ELSE IF d = unparsable THEN NaN ELSE d

HasUnparsableDate(e) == EventTime(e) = NaN

EventScore(e) == IF e.score = undefinedNum THEN 0 ELSE e.score

\* the place of an event in a list that holds it once
PlaceIn(list, e) == CHOOSE k \in 1..Len(list) : list[k] = e

Elems(list) == {list[k] : k \in 1..Len(list)}

\* C1: the timeline is ordered by score descending, then by date descending
\* among equal scores, and events of equal score and equal date keep the
\* order they had after deduplication.
TimelineOrdered ==
    Loaded =>
        LET f == timelineView.filtered IN
        \A i, j \in 1..Len(f) : i < j =>
            /\ EventScore(f[i]) >= EventScore(f[j])
            /\ (/\ EventScore(f[i]) = EventScore(f[j])
                /\ ~HasUnparsableDate(f[i])
                /\ ~HasUnparsableDate(f[j]))
               => /\ EventTime(f[i]) >= EventTime(f[j])
                  /\ EventTime(f[i]) = EventTime(f[j]) =>
                        PlaceIn(timelineView.deduped, f[i])
                            < PlaceIn(timelineView.deduped, f[j])

\* The order of C1 in the views where every date parses.
TimelineOrderedWhenDatesParse ==
    (Loaded /\ \A k \in 1..Len(timelineView.filtered) :
                    ~HasUnparsableDate(timelineView.filtered[k]))
    => TimelineOrdered

\* C2: after deduplication no two events share a key (the first 50
\* characters of the title), and the event kept for a key is the first one
\* of the input that carries it.
DedupeKeepsFirstOfEachKey ==
    Loaded =>
        LET hv == timelineView.highValueEvents
            d == timelineView.deduped
        IN  /\ \A i, j \in 1..Len(d) :
                    i # j => TitleKey(d[i].title) # TitleKey(d[j].title)
            /\ d = FilterIdx(hv, {i \in 1..Len(hv) : \A j \in 1..(i - 1) :
                        TitleKey(hv[j].title) # TitleKey(hv[i].title)}, 1)

\* two news items with different titles that agree on their first 50
\* characters were merged into one timeline event
DedupeWitness ==
    /\ Loaded
    /\ \E i, j \in 1..Len(timelineView.highValueEvents) :
        LET a == timelineView.highValueEvents[i]
            b == timelineView.highValueEvents[j]
        IN  /\ i < j /\ a.type = "news" /\ b.type = "news"
            /\ a.title # b.title
            /\ TitleKey(a.title) = TitleKey(b.title)
            /\ a \in Elems(timelineView.deduped)
            /\ b \notin Elems(timelineView.deduped)

\* C3: deduplicating the deduplicated list again returns it unchanged.
DedupeIdempotent ==
    Loaded => dedupe(timelineView.deduped) = timelineView.deduped

\* a deduplication that dropped something and kept several events
DedupeIdempotentWitness ==
    /\ Loaded
    /\ Len(timelineView.deduped) < Len(timelineView.highValueEvents)
    /\ Len(timelineView.deduped) >= 2
    /\ dedupe(timelineView.deduped) = timelineView.deduped

\* C6: every article of the scan with relevance at least 70 is in the
\* timeline as a news event labelled "relevance", unless an event with the
\* same key stands for it or the date filter drops it; and every news event
\* of the timeline is such an article.
HighValueNewsAllProjected ==
    Loaded =>
        LET news == Given("recentNews")
            d == timelineView.deduped
        IN  /\ \A i \in 1..Len(news) :
                    (news[i].relevance_score # undefinedNum
                        /\ news[i].relevance_score >= 70)
                    => \E k \in 1..Len(d) :
                            TitleKey(d[k].title) = TitleKey(news[i].title)
            /\ \A k \in 1..Len(d) : d[k].type = "news" =>
                    /\ d[k].scoreLabel = "relevance"
                    /\ \E i \in 1..Len(news) :
                            /\ news[i].title = d[k].title
                            /\ news[i].relevance_score = d[k].score
                            /\ news[i].relevance_score >= 70

\* An event whose date does not parse is left out of every bounded range
\* and, in the 'all' view, comes after every event of equal score whose
\* date is valid.
UnparsableDateSortsLast ==
    Loaded =>
        LET f == timelineView.filtered IN
        \A i \in 1..Len(f) : HasUnparsableDate(f[i]) =>
            /\ timelineView.days = all
            /\ \A j \in 1..Len(f) :
                    (/\ EventScore(f[j]) = EventScore(f[i])
                     /\ ~HasUnparsableDate(f[j])
                     /\ EventTime(f[j]) > 0)
                    => j < i

\* the articles and stored events the view was built from that carry the
\* title and have no date at all
UndatedSources(title) ==
    {allNewsItems[i] : i \in {k \in 1..Len(allNewsItems) :
        allNewsItems[k].title = title /\ allNewsItems[k].date = undefinedNum}}
    \cup {allTimelineEvents[i] : i \in {k \in 1..Len(allTimelineEvents) :
        /\ allTimelineEvents[k].title = title
        /\ allTimelineEvents[k].date = undefinedNum
        /\ allTimelineEvents[k].timestamp = undefinedNum}}

\* the articles and stored events the view was built from that carry the
\* title and have a date
DatedSources(title) ==
    {allNewsItems[i] : i \in {k \in 1..Len(allNewsItems) :
        allNewsItems[k].title = title /\ allNewsItems[k].date # undefinedNum}}
    \cup {allTimelineEvents[i] : i \in {k \in 1..Len(allTimelineEvents) :
        /\ allTimelineEvents[k].title = title
        /\ (allTimelineEvents[k].date # undefinedNum
            \/ allTimelineEvents[k].timestamp # undefinedNum)}}

\* No event that comes from a record without a date is shown in a bounded
\* range.
UndatedOutOfBoundedRanges ==
    (Loaded /\ timelineView.days # all) =>
        \A k \in 1..Len(timelineView.filtered) :
            LET title == timelineView.filtered[k].title IN
            ~(UndatedSources(title) # {} /\ DatedSources(title) = {})

\* C7: a timeline event whose date is missing or unparsable is treated as
\* dated at the epoch: no bounded range shows it, and in the 'all' view it
\* comes after every event of equal score that has a valid date.
MissingOrUnparsableDateIsEpoch ==
    UnparsableDateSortsLast /\ UndatedOutOfBoundedRanges

\* C8: range 'all' keeps every deduplicated event; a range of N days keeps
\* exactly the events dated at or after now minus N days.
RangeKeepsExactlyRecent ==
    Loaded =>
        LET d == timelineView.deduped
            f == timelineView.filtered
            cutoff == timelineView.at - timelineView.days * 24
        IN  /\ Len(f) = Cardinality(Elems(f))
            /\ Elems(f) =
                IF timelineView.days = all THEN Elems(d)
                ELSE {e \in Elems(d) : ~HasUnparsableDate(e) /\ EventTime(e) >= cutoff}

\* a bounded range that kept an event dated exactly at the cutoff and
\* dropped another
RangeWitness ==
    /\ Loaded
    /\ timelineView.days # all
    /\ \E e \in Elems(timelineView.filtered) :
            EventTime(e) = timelineView.at - timelineView.days * 24
    /\ Elems(timelineView.deduped) # Elems(timelineView.filtered)

IsPrefix(short, long) ==
    /\ Len(short) <= Len(long)
    /\ \A k \in 1..Len(short) : short[k] = long[k]

\* what a view shows of its sorted list, collapsed or expanded
ShowsSlice ==
    LET f == timelineView.filtered
        total == Len(f)
    IN  /\ ~timelineExpanded =>
                timelineView.displayItems = SubSeq(f, 1, IF total <= 8 THEN total ELSE 8)
        /\ timelineExpanded => timelineView.displayItems = f
        /\ timelineView.seeMore = IF total > 8 THEN total - 8 ELSE 0

\* C15: the collapsed timeline shows the first min(8, total) events of the
\* sorted list and the expanded one all of them; expanding or collapsing
\* does not re-sort, so the collapsed view is a prefix of the expanded one;
\* "show N more" is offered only when total > 8, with N = total - 8.
TimelineCollapse ==
    [][/\ ShowsSlice'
       /\ (timelineExpanded' # timelineExpanded /\ timelineView'.at = timelineView.at)
          => /\ timelineView'.filtered = timelineView.filtered
             /\ \/ IsPrefix(timelineView.displayItems, timelineView'.displayItems)
                \/ IsPrefix(timelineView'.displayItems, timelineView.displayItems)]_vars

\* an expanded timeline that shows more than 8 events
ExpandedWitness ==
    /\ Loaded
    /\ timelineExpanded
    /\ Len(timelineView.displayItems) > 8
    /\ timelineView.seeMore = Len(timelineView.displayItems) - 8

RECURSIVE TrimStart(_)
TrimStart(title) ==
    IF title # "" /\ SubSeq(title, 1, 1) = " " THEN TrimStart(SubSeq(title, 2, Len(title)))
    ELSE title

RECURSIVE TrimEnd(_)
TrimEnd(title) ==
    IF title # "" /\ SubSeq(title, Len(title), Len(title)) = " "
    THEN TrimEnd(SubSeq(title, 1, Len(title) - 1))
    ELSE title

\* the title without surrounding whitespace, cut to its first 50 characters
TrimmedKey(title) ==
    IF title = undefined THEN ""
    ELSE LET trimmed == TrimEnd(TrimStart(title)) IN
         IF Len(trimmed) <= 50 THEN trimmed ELSE SubSeq(trimmed, 1, 50)

\* C16: the deduplication key is the trimmed title, case preserved, cut to
\* 50 characters: the deduplicated list is the list of the events that are
\* the first to carry their trimmed key, so titles that differ in
\* surrounding whitespace only are duplicates and titles that differ in
\* letter case only are not.
DedupeByTrimmedKey ==
    Loaded =>
        LET hv == timelineView.highValueEvents IN
        timelineView.deduped =
            FilterIdx(hv, {i \in 1..Len(hv) : \A j \in 1..(i - 1) :
                        TrimmedKey(hv[j].title) # TrimmedKey(hv[i].title)}, 1)

\* Titles that differ in letter case only are not duplicates.
LetterCaseKept ==
    Loaded =>
        \A i, j \in 1..Len(timelineView.highValueEvents) :
            LET a == timelineView.highValueEvents[i]
                b == timelineView.highValueEvents[j]
            IN  (/\ i < j /\ a.title # undefined /\ b.title # undefined
                 /\ a.title # b.title
                 /\ ToLowerCase(a.title) = ToLowerCase(b.title)
                 /\ a \in Elems(timelineView.deduped))
                => b \in Elems(timelineView.deduped)

\* for every article of the list with relevance at least 70 whose key a
\* stored job_posting or organization event shares, the timeline event of
\* that key is the one derived from news
NewsWinsOver(news) ==
    \A i \in 1..Len(news) :
        (/\ news[i].relevance_score # undefinedNum
         /\ news[i].relevance_score >= 70
         /\ \E l \in 1..Len(allTimelineEvents) :
                /\ allTimelineEvents[l].type \in {"job_posting", "organization"}
                /\ TitleKey(allTimelineEvents[l].title) = TitleKey(news[i].title))
        => /\ \E k \in 1..Len(timelineView.deduped) :
                TitleKey(timelineView.deduped[k].title) = TitleKey(news[i].title)
           /\ \A k \in 1..Len(timelineView.deduped) :
                TitleKey(timelineView.deduped[k].title) = TitleKey(news[i].title)
                => /\ timelineView.deduped[k].type = "news"
                   /\ timelineView.deduped[k].scoreLabel = "relevance"

\* C17: when an article with relevance at least 70 and a stored
\* job_posting or organization event share a key, the event the timeline
\* keeps is the news-derived one.
NewsWinsDedupe ==
    Loaded => NewsWinsOver(Given("recentNews"))

\* The statement of C17 for the articles renderNews listed.
ListedNewsWinsDedupe ==
    Loaded => NewsWinsOver(allNewsItems)

\* what the timeline holds of the stored events: type, title, score, label
StoredPart(events) ==
    LET kept == FilterIdx(events, {i \in 1..Len(events) : events[i].type # "news"}, 1) IN
    [k \in 1..Len(kept) |-> <<kept[k].type, kept[k].title, kept[k].score, kept[k].scoreLabel>>]

\* the stored job_posting and organization events with the score they
\* carry, or 50 when they carry none (or, with zeroCounts false, carry 0)
ExpectedStoredPart(events, zeroCounts) ==
    LET kept == FilterIdx(events, {i \in 1..Len(events) :
                    events[i].type = "job_posting" \/ events[i].type = "organization"}, 1)
    IN  [k \in 1..Len(kept) |->
            <<kept[k].type, kept[k].title,
              IF kept[k].score = undefinedNum \/ (~zeroCounts /\ kept[k].score = 0)
              THEN 50 ELSE kept[k].score,
              IF kept[k].type = "job_posting" THEN "suspicion" ELSE "risk">>]

\* C18: a stored job_posting or organization event is projected with the
\* label "suspicion" or "risk" and the score it carries, whatever it is, 0
\* included; 50 is used only when it carries none; stored events of any
\* other type are not projected.
LegacyKeepsScore ==
    Loaded => StoredPart(timelineView.highValueEvents)
                = ExpectedStoredPart(allTimelineEvents, TRUE)

\* The statement of C18 with a score of 0 replaced by 50 like an absent one.
LegacyKeepsNonZeroScore ==
    Loaded => StoredPart(timelineView.highValueEvents)
                = ExpectedStoredPart(allTimelineEvents, FALSE)

\* C27: after any clicks on the range buttons and on see-more, the view
\* agrees with the controls: a range click leaves the timeline collapsed
\* and currentRange at the button's range, a see-more click flips
\* timelineExpanded and keeps the range, currentRange is 'all' or the
\* number of a button, and the timeline shows every event of the range when
\* expanded and the first 8 of them, or all if fewer, when collapsed
ControlsAndViewAgree ==
    /\ [](Loaded =>
            /\ currentRange \in RangeButtons
            /\ timelineView.days = currentRange
            /\ Len(timelineView.displayItems) =
                    IF timelineExpanded THEN Len(timelineView.filtered)
                    ELSE Min(TIMELINE_LIMIT, Len(timelineView.filtered)))
    /\ [][(\A range \in RangeButtons :
                ClickRange(range) => (~timelineExpanded' /\ currentRange' = range))
           /\ (ClickSeeMore => (timelineExpanded' = ~timelineExpanded
                                 /\ currentRange' = currentRange))]_vars

\* a range was clicked and then see-more: the 30 days' events, expanded
RangeThenSeeMoreWitness ==
    /\ Loaded
    /\ currentRange = 30
    /\ timelineExpanded
    /\ Len(timelineView.displayItems) > TIMELINE_LIMIT

\* C28: renderTimeline leaves allTimelineEvents and allNewsItems as they
\* are, in content and in order: after init() they are the snapshot's
\* timeline and the list renderNews made, and no range or see-more click
\* changes them
StoredListsUntouched ==
    /\ [](Loaded => allTimelineEvents = Given("timeline"))
    /\ [][(pc = "start" /\ pc' = "loaded")
            => allNewsItems' = renderNews(OrList(memory', "recentNews"))]_vars
    /\ [][((\E range \in RangeButtons : ClickRange(range)) \/ ClickSeeMore)
            => (allTimelineEvents' = allTimelineEvents
                /\ allNewsItems' = allNewsItems)]_vars

\* the timeline was re-rendered by a click and shows the stored events in
\* another order than the stored one
ReorderedViewWitness ==
    /\ Loaded
    /\ timelineExpanded
    /\ Len(allTimelineEvents) > 1
    /\ \E i, j \in 1..Len(allTimelineEvents) :
        /\ i < j
        /\ OrNum(allTimelineEvents[i].score, DEFAULT_SCORE)
            < OrNum(allTimelineEvents[j].score, DEFAULT_SCORE)

\* the two sources renderNews tells apart
NewsSources == {"duckduckgo", "google"}

SourceOf(n) == IF n.source = "duckduckgo" THEN "duckduckgo" ELSE "google"

Relevance(n) == OrNum(n.relevance_score, 0)

\* the articles of a source in a list, and those of them above a relevance
OfSource(list, src) == {i \in 1..Len(list) : SourceOf(list[i]) = src}

OfSourceAbove(list, src, r) == {i \in OfSource(list, src) : Relevance(list[i]) > r}

\* how often a list holds an article
Copies(list, n) == Cardinality({i \in 1..Len(list) : list[i] = n})

\* C29: renderNews keeps of each source the 10 articles of highest
\* relevance, or all if fewer, merged in non-increasing relevance order; the
\* news see-more toggle, which runs renderNews on allNewsItems again, flips
\* newsExpanded and leaves allNewsItems as it was
NewsTopTenPerSource ==
    /\ [](Loaded =>
            LET news == Given("recentNews") IN
            /\ \A i \in 1..Len(allNewsItems) :
                    Copies(allNewsItems, allNewsItems[i]) <= Copies(news, allNewsItems[i])
            /\ \A src \in NewsSources :
                /\ Cardinality(OfSource(allNewsItems, src))
                    = Min(NEWS_PER_SOURCE, Cardinality(OfSource(news, src)))
                /\ \A k \in OfSource(allNewsItems, src) :
                    Cardinality(OfSourceAbove(news, src, Relevance(allNewsItems[k])))
                    = Cardinality(OfSourceAbove(allNewsItems, src,
                                                Relevance(allNewsItems[k])))
            /\ \A i, j \in 1..Len(allNewsItems) :
                    i < j => Relevance(allNewsItems[i]) >= Relevance(allNewsItems[j]))
    /\ [][ClickNewsSeeMore
            => (allNewsItems' = allNewsItems /\ newsExpanded' = ~newsExpanded)]_vars

\* the news see-more toggle has run renderNews on a list that holds articles
\* of both sources with equal relevance
NewsToggledWitness ==
    /\ Loaded
    /\ newsExpanded
    /\ \E i, j \in 1..Len(allNewsItems) :
        /\ SourceOf(allNewsItems[i]) # SourceOf(allNewsItems[j])
        /\ Relevance(allNewsItems[i]) = Relevance(allNewsItems[j])

\* the news-type events of the timeline as rendered
TimelineNewsEvents ==
    {i \in 1..Len(timelineView.filtered) : timelineView.filtered[i].type = "news"}

\* C30: the 'events' stat, the number of articles of memory.recentNews with
\* relevance 70 or more, is the number of news-type events the timeline
\* holds for the range 'all', for every snapshot
StatEventsMatchTimeline ==
    (Loaded /\ timelineView.days = all)
        => panels.events = Cardinality(TimelineNewsEvents)

\* what holds instead: the timeline for 'all' holds no more news-type events
\* than the stat counts
StatEventsBoundTimeline ==
    (Loaded /\ timelineView.days = all)
        => panels.events >= Cardinality(TimelineNewsEvents)

-----------------------------------------------------------------------------
(* Properties of the connections *)

ConnectionsOfType(type) ==
    {k \in 1..Len(allConnections) : allConnections[k].type = type}

\* generateConnections ran on the snapshot (the snapshot supplied none)
Generated == Loaded /\ Len(Given("connections")) = 0

CapOf(type) ==
    CASE type = "Geographic Match" -> 85
      [] type = "Naming Pattern" -> 80
      [] type = "New High-Risk Orgs" -> 75
      [] type = "News Cluster" -> 70

\* C4: no connection of generateConnections has a probability above its
\* detector's cap.
ProbabilityWithinCap ==
    Generated =>
        \A k \in 1..Len(allConnections) :
            /\ allConnections[k].type \in {"Geographic Match", "Naming Pattern",
                                           "New High-Risk Orgs", "News Cluster"}
            /\ allConnections[k].probability <= CapOf(allConnections[k].type)

\* all four detectors fired on more records than their caps allow for
AllCapsWitness ==
    /\ Generated
    /\ Len(allConnections) = 4
    /\ Len(Given("jobPostings")) > 5
    /\ Len(Given("flaggedOrganizations")) > 11
    /\ Len(Given("recentNews")) > 6
    /\ \A k \in 1..4 : allConnections[k].probability = CapOf(allConnections[k].type)

\* the lower-cased locations of the news and the listed cities their titles name
LocationSet(news) ==
    {ToLowerCase(news[i].location) :
        i \in {k \in 1..Len(news) :
                news[k].location # undefined /\ news[k].location # ""}}
    \cup {cities[c] : c \in {k \in 1..Len(cities) : \E i \in 1..Len(news) :
            /\ news[i].title # undefined
            /\ Includes(ToLowerCase(news[i].title), cities[k])}}

\* the jobs whose lower-cased city is in the location set, in input order
JobsInLocations(jobs, locations) ==
    FilterIdx(jobs, {i \in 1..Len(jobs) :
        jobs[i].city # undefined /\ ToLowerCase(jobs[i].city) \in locations}, 1)

JobDetail(j) ==
    (IF j.title = undefined THEN "undefined"
     ELSE IF Len(j.title) <= 40 THEN j.title ELSE SubSeq(j.title, 1, 40))
    \o " in " \o j.city

\* C9: a Geographic Match is emitted exactly when some job's lower-cased
\* city is in the location set; its probability is min(60 + 5*count, 85)
\* and its evidence the first two such jobs at most, in input order.
GeographicMatchExact ==
    Generated =>
        LET near == JobsInLocations(Given("jobPostings"), LocationSet(Given("recentNews")))
            geo == ConnectionsOfType("Geographic Match")
        IN  /\ Cardinality(geo) = IF Len(near) >= 1 THEN 1 ELSE 0
            /\ \A g \in geo :
                /\ allConnections[g].probability =
                        (IF 60 + 5 * Len(near) <= 85 THEN 60 + 5 * Len(near) ELSE 85)
                /\ Len(allConnections[g].evidence) = (IF Len(near) <= 2 THEN Len(near) ELSE 2)
                /\ \A k \in 1..Len(allConnections[g].evidence) :
                        allConnections[g].evidence[k].detail = JobDetail(near[k])

\* more jobs than the cap allows for matched, some through the article's
\* location and some through a city in its title, in another letter case
GeographicWitness ==
    /\ Generated
    /\ Len(Given("jobPostings")) >= 6
    /\ \E i \in 1..Len(Given("jobPostings")) : Given("jobPostings")[i].city = "AUSTIN"
    /\ \E g \in ConnectionsOfType("Geographic Match") :
            /\ allConnections[g].probability = 85
            /\ Len(allConnections[g].evidence) = 2

\* the organizations whose lower-cased name holds one of the four patterns
PatrioticCount(orgs) ==
    Cardinality({i \in 1..Len(orgs) :
        /\ orgs[i].name # undefined
        /\ \E pat \in {"freedom", "liberty", "citizens for", "americans for"} :
                Includes(ToLowerCase(orgs[i].name), pat)})

\* C10: a Naming Pattern is emitted exactly when at least 3 organizations
\* have a patriotic name; its probability is min(55 + 3*count, 80), so 70
\* for 5 organizations.
NamingPatternExact ==
    Generated =>
        LET count == PatrioticCount(Given("flaggedOrganizations"))
            naming == ConnectionsOfType("Naming Pattern")
        IN  /\ Cardinality(naming) = IF count >= 3 THEN 1 ELSE 0
            /\ \A g \in naming :
                /\ allConnections[g].probability =
                        (IF 55 + 3 * count <= 80 THEN 55 + 3 * count ELSE 80)
                /\ count = 5 => allConnections[g].probability = 70

\* five patriotic organizations gave a Naming Pattern of probability 70
NamingWitness ==
    /\ Generated
    /\ PatrioticCount(Given("flaggedOrganizations")) = 5
    /\ \E g \in ConnectionsOfType("Naming Pattern") : allConnections[g].probability = 70

\* two patriotic organizations gave no Naming Pattern
NamingBelowThreshold ==
    /\ Generated
    /\ PatrioticCount(Given("flaggedOrganizations")) = 2
    /\ ConnectionsOfType("Naming Pattern") = {}

\* the time at which init() ran and the connections were generated
GeneratedAt == timelineView.at

DaysInMonth(y, m) ==
    (IF m = 12 THEN daysFromCivil(y + 1, 1, 1) ELSE daysFromCivil(y, m + 1, 1))
    - daysFromCivil(y, m, 1)

\* six calendar months before t: the same day of the month and time of day,
\* or the last day of the month when it is shorter
SixMonthsBefore(t) ==
    LET c == civilFromDays(t \div 24)
        y == IF c.m > 6 THEN c.y ELSE c.y - 1
        m == IF c.m > 6 THEN c.m - 6 ELSE c.m + 6
        d == IF c.d <= DaysInMonth(y, m) THEN c.d ELSE DaysInMonth(y, m)
    IN  daysFromCivil(y, m, d) * 24 + (t % 24)

\* the organizations with a risk score of at least 70 filed after the cutoff
HighRiskFiledAfter(orgs, cutoff) ==
    Cardinality({i \in 1..Len(orgs) :
        /\ orgs[i].first_file_date >= 0
        /\ orgs[i].first_file_date > cutoff
        /\ orgs[i].risk_score # undefinedNum
        /\ orgs[i].risk_score >= 70})

NewHighRiskOrgsFor(count) ==
    LET recent == ConnectionsOfType("New High-Risk Orgs") IN
    /\ Cardinality(recent) = IF count >= 1 THEN 1 ELSE 0
    /\ \A g \in recent :
            allConnections[g].probability =
                (IF 50 + 10 * count <= 75 THEN 50 + 10 * count ELSE 75)

\* C11: a New High-Risk Orgs connection is emitted exactly when at least
\* one organization was first filed within the last 6 months and has a risk
\* score of at least 70; its probability is min(50 + 10*count, 75).
NewHighRiskOrgsExact ==
    Generated =>
        NewHighRiskOrgsFor(HighRiskFiledAfter(Given("flaggedOrganizations"),
                                              SixMonthsBefore(GeneratedAt)))

\* The statement of C11 with the cutoff setMonth(getMonth() - 6) computes,
\* which on the 31st of August is the 3rd of March.
NewHighRiskOrgsByScriptCutoff ==
    Generated =>
        NewHighRiskOrgsFor(HighRiskFiledAfter(Given("flaggedOrganizations"),
                                              sixMonthsAgo(GeneratedAt)))

\* the articles with "paid" in the lower-cased title or in the query, the
\* query lower-cased or taken as written
PaidCount(news, lowerQuery) ==
    Cardinality({i \in 1..Len(news) :
        \/ news[i].title # undefined /\ Includes(ToLowerCase(news[i].title), "paid")
        \/ /\ news[i].query # undefined
           /\ Includes(IF lowerQuery THEN ToLowerCase(news[i].query) ELSE news[i].query,
                       "paid")})

NewsClusterFor(count) ==
    LET cluster == ConnectionsOfType("News Cluster") IN
    /\ Cardinality(cluster) = IF count >= 3 THEN 1 ELSE 0
    /\ \A g \in cluster :
            allConnections[g].probability =
                (IF 45 + 5 * count <= 70 THEN 45 + 5 * count ELSE 70)

\* C12: a News Cluster connection is emitted exactly when at least 3
\* articles contain "paid" in their title or in their query, in whatever
\* letter case; its probability is min(45 + 5*count, 70).
NewsClusterExact ==
    Generated => NewsClusterFor(PaidCount(Given("recentNews"), TRUE))

\* The statement of C12 with the query matched as written ("paid" in lower
\* case only).
NewsClusterWithQueryAsWritten ==
    Generated => NewsClusterFor(PaidCount(Given("recentNews"), FALSE))

\* the place of a detector in generateConnections
DetectorRank(type) ==
    CASE type = "Geographic Match" -> 1
      [] type = "Naming Pattern" -> 2
      [] type = "New High-Risk Orgs" -> 3
      [] type = "News Cluster" -> 4
      [] OTHER -> 0

ConnectionsInOrder ==
    \A i, j \in 1..Len(allConnections) : i < j =>
        /\ allConnections[i].probability >= allConnections[j].probability
        /\ (/\ allConnections[i].probability = allConnections[j].probability
            /\ DetectorRank(allConnections[i].type) > 0
            /\ DetectorRank(allConnections[j].type) > 0
            /\ Generated)
           => DetectorRank(allConnections[i].type) < DetectorRank(allConnections[j].type)

\* C13: the connections handed to presentation are in non-increasing
\* probability order, equal probabilities in detector order, whether they
\* were generated or supplied in memory.connections.
ConnectionsOrdered ==
    Loaded => ConnectionsInOrder

\* The order of C13 for the connections generateConnections returns.
GeneratedConnectionsOrdered ==
    Generated => ConnectionsInOrder

\* the wall-clock times of the model
ClockTimes == Now0..(Now0 + MaxTicks)

\* C14: the result of generateConnections depends on the record sets only:
\* an invocation at any other wall-clock time on the same snapshot returns
\* the list this one returned.
ConnectionsIndependentOfClock ==
    Generated => \A t \in ClockTimes : generateConnections(memory, t) = allConnections

\* C20: when the snapshot lacks one of its input collections (job
\* postings, news, organizations, timeline) the page fails with an error: it
\* does not load with the missing collection read as an empty one.
MissingCollectionFails ==
    Loaded => {"jobPostings", "recentNews", "flaggedOrganizations", "timeline"}
                \subseteq DOMAIN memory

NoneOfType(type) == ConnectionsOfType(type) = {}

-----------------------------------------------------------------------------
(* Properties of the job and organization panels *)

\* the postings shown, each no lower in score than the next
JobsOrdered ==
    Loaded => \A i, j \in 1..Len(panels.jobs) :
                i < j => OrNum(panels.jobs[i].suspicion_score, 0)
                            >= OrNum(panels.jobs[j].suspicion_score, 0)

\* the organizations shown, each no lower in score than the next
OrganizationsOrdered ==
    Loaded => \A i, j \in 1..Len(panels.orgs) :
                i < j => OrNum(panels.orgs[i].risk_score, 0)
                            >= OrNum(panels.orgs[j].risk_score, 0)

\* C24: the job postings and the organizations are shown in non-increasing
\* score order, whatever the order of the snapshot
JobsAndOrganizationsOrdered == JobsOrdered /\ OrganizationsOrdered

\* the organizations are shown in the order of the snapshot
OrganizationsInSnapshotOrder ==
    Loaded => panels.orgs = Slice0(Given("flaggedOrganizations"), ORGS_SHOWN)

\* postings in an order other than that of their scores are shown
JobsReorderedWitness ==
    /\ Loaded
    /\ Len(panels.jobs) > 1
    /\ \E i, j \in 1..Len(Given("jobPostings")) :
        /\ i < j
        /\ OrNum(Given("jobPostings")[i].suspicion_score, 0)
            < OrNum(Given("jobPostings")[j].suspicion_score, 0)

-----------------------------------------------------------------------------
(* Properties of the confidence panel *)

\* the snapshot supplies a confidence
SuppliesConfidence(mem) ==
    "systemConfidence" \in DOMAIN mem /\ mem.systemConfidence # undefinedNum

\* the monitor page has drawn its panels
Rendered == displayed # NothingDisplayed

\* C22: the percentage either page shows is the confidence the snapshot
\* supplies, clamped to 0..100; a supplied 0 is shown as 0
ConfidenceClamped ==
    /\ (Loaded /\ SuppliesConfidence(memory))
        => panels.confidence.percent = clamp(memory.systemConfidence)
    /\ (Rendered /\ SuppliesConfidence(displayed.memory))
        => displayed.confidence.percent = clamp(displayed.memory.systemConfidence)

\* what holds instead: a supplied confidence other than 0 is shown as it
\* is, and the dashboard shows 50 for a supplied 0
ConfidenceShownAsSupplied ==
    /\ (Loaded /\ SuppliesConfidence(memory))
        => panels.confidence.percent = IF memory.systemConfidence = 0
                                       THEN DEFAULT_CONFIDENCE
                                       ELSE memory.systemConfidence
    /\ (Rendered /\ SuppliesConfidence(displayed.memory))
        => displayed.confidence.percent = displayed.memory.systemConfidence

\* the fixed text of the tier a confidence falls in
TierText(confidence) ==
    IF confidence >= 70
        THEN "High confidence in current detections. Multiple corroborating indicators found."
    ELSE IF confidence >= 40
        THEN "Moderate confidence. Some patterns detected but more data needed."
    ELSE "Low confidence. Insufficient data for reliable detection."

\* the narrative of the claim for a snapshot and the percentage shown with it
ExpectedNarrative(mem, percent, desc) ==
    LET notes == IF "agentNotes" \in DOMAIN mem THEN mem.agentNotes ELSE <<>> IN
    /\ (Len(notes) > 0 /\ notes[1].summary # undefined) => desc = notes[1].summary
    /\ Len(notes) = 0 => desc = TierText(percent)

\* C23: the narrative either page shows is the summary of the latest
\* AgentNote when there is one, and otherwise the fixed text of the tier of
\* the confidence: 70 and above, 40 to 69, below 40
NarrativeFromNoteOrTier ==
    /\ Loaded => ExpectedNarrative(memory, panels.confidence.percent,
                                   panels.confidence.desc)
    /\ Rendered => ExpectedNarrative(displayed.memory, displayed.confidence.percent,
                                     displayed.confidence.desc)

\* the monitor page shows the narrative of C23; the dashboard shows a note's
\* summary and otherwise leaves the text of the page
MonitorNarrativeFromNoteOrTier ==
    /\ Rendered => ExpectedNarrative(displayed.memory, displayed.confidence.percent,
                                     displayed.confidence.desc)
    /\ (Loaded /\ Len(Given("agentNotes")) = 0) => panels.confidence.desc = pageText

-----------------------------------------------------------------------------
(* Properties of the monitor page's refresh *)

\* a refresh has succeeded: there is a last good snapshot
GoodRefreshDone == \E g \in DOMAIN runs : runs[g].stage = "done" /\ ~runs[g].failing

\* C25: a refresh that fails (a fetch rejects, or the response for either
\* file is not ok or holds no JSON) leaves the last snapshot in force: no
\* step of it changes state.memory, state.alerts or what is displayed
FailedRefreshKeepsSnapshot ==
    [][\A r \in DOMAIN runs :
        (GoodRefreshDone /\ runs'[r] # runs[r] /\ runs'[r].failing)
            => (state' = state /\ displayed' = displayed)]_vars

\* what holds instead: each file is kept when its own response fails, and
\* replaced by what the call fetched when its own response is good
OwnFailureKeepsFile ==
    [][/\ state'.memory # state.memory
            => \E r \in DOMAIN runs :
                /\ runs[r].stage = "memoryJson" /\ runs[r].memoryRes = "ok"
                /\ state'.memory = runs[r].file
       /\ state'.alerts # state.alerts
            => \E r \in DOMAIN runs :
                /\ runs[r].stage = "alertsJson" /\ runs[r].alertsRes = "ok"
                /\ state'.alerts = runs[r].alertsFile.alerts]_vars

\* the scan that wrote the alerts
AlertsScan(alerts) == IF Len(alerts) = 0 THEN 0 ELSE alerts[1].timestamp

\* C26: when loadData() calls overlap, their snapshots are applied in the
\* order the calls started: what a later call fetched is never replaced by
\* what an earlier call fetched
AppliedInStartOrder ==
    [][/\ state'.memory.lastScan >= state.memory.lastScan
       /\ AlertsScan(state'.alerts) >= AlertsScan(state.alerts)]_vars

\* two calls are waiting at once
OverlapWitness ==
    \E r1, r2 \in DOMAIN runs : r1 < r2 /\ runs[r1].stage # "done" /\ runs[r2].stage # "done"

-----------------------------------------------------------------------------
(* Properties of the scorer *)

\* C5: the score scoreJob and scoreOrg return is an integer in 0..100,
\* whatever combination of rules matches.
ScoreWithinRange ==
    scored.kind # "none" => scored.score \in 0..100

\* a posting with all four high-signal phrases, whose points add up to more
\* than 100, scored 100
ScoreClampedWitness ==
    /\ scored.kind = "job"
    /\ scored.input.title # undefined
    /\ \A k \in 1..4 : Includes(scored.input.title, highSignalPhrases[k])
    /\ scored.score = 100

\* the points of a phrase: its tier's points when it occurs in the text
PointsFor(text, phrase, points) ==
    IF \E i \in 1..Len(text) :
            /\ i + Len(phrase) - 1 <= Len(text)
            /\ SubSeq(text, i, i + Len(phrase) - 1) = phrase
    THEN points ELSE 0

\* the lower-cased title and description of a posting
PostingText(job) ==
    ToLowerCase((IF job.title = undefined THEN "" ELSE job.title) \o " " \o
                (IF job.description = undefined THEN "" ELSE job.description))

AdditiveTotal(text) ==
      PointsFor(text, "paid protest", 25) + PointsFor(text, "hold signs", 25)
    + PointsFor(text, "same day pay", 25) + PointsFor(text, "cash daily", 25)
    + PointsFor(text, "protest", 10) + PointsFor(text, "rally", 10)
    + PointsFor(text, "canvass", 10) + PointsFor(text, "grassroots", 10)
    + PointsFor(text, "political", 10)
    + PointsFor(text, "urgent", 5) + PointsFor(text, "immediate", 5)
    + PointsFor(text, "today", 5) + PointsFor(text, "asap", 5)

\* C19: scoreJob adds the points of every listed phrase that occurs in the
\* posting, in whatever letter case, once however often it occurs, and caps
\* the sum at 100; "Urgent! Paid Protest Organizer, Same Day Pay" scores 65.
ScoreJobAdditive ==
    scored.kind = "job" =>
        LET total == AdditiveTotal(PostingText(scored.input)) IN
        /\ scored.score = IF total <= 100 THEN total ELSE 100
        /\ (/\ scored.input.title = "Urgent! Paid Protest Organizer, Same Day Pay"
            /\ scored.input.description = undefined)
           => scored.score = 65

\* the example posting scored 65
ScoreExampleWitness ==
    /\ scored.kind = "job"
    /\ scored.input.title = "Urgent! Paid Protest Organizer, Same Day Pay"
    /\ scored.score = 65

\* a posting that repeats a phrase scored it once
ScoreRepeatWitness ==
    /\ scored.kind = "job"
    /\ scored.input.title = "Protest, protest and protest again"
    /\ scored.score = 10

=============================================================================
